---- MODULE Spec2Model ----
(***************************************************************************)
(* Model of the XKT format V1 parser                                       *)
(* (src/plugins/XKTLoaderPlugin/parsers/ParserV1.js).                      *)
(*                                                                         *)
(* ParserV1.parse = extract -> inflate -> load.  load walks the entity and *)
(* mesh offset tables and issues createMesh / createEntity calls on the    *)
(* performance model.  One action of the model is one step of that code;   *)
(* the calls made on the performance model are recorded, in order, in      *)
(* performanceModel.calls.                                                 *)
(*                                                                         *)
(* JavaScript values are modelled as follows.                              *)
(*   - a typed array is a sequence of integers (index 0 is element 1);     *)
(*   - a typed-array view made by subarray is [buffer, begin, length];     *)
(*   - an out-of-range read yields Undefined (all arrays read by load are  *)
(*     unsigned, so the negative number Undefined is never an element);    *)
(*   - a floating-point number n/d is the reduced pair <<n, d>>, NaN is    *)
(*     <<0, 0>> (the rounding of Float32Array stores is not modelled);     *)
(*   - a string is a sequence of tokens, a plain object is a function from *)
(*     field names to values, {} is the function with the empty domain.    *)
(***************************************************************************)
EXTENDS Integers, Sequences, FiniteSets, TLC

VARIABLES
    elements,          \* argument of ParserV1.parse: the 12 deflated buffers
    viewer,            \* viewer.metaScene.metaObjects: entity id -> meta object
    options,           \* the loader options (type filters, object defaults)
    entry,             \* "none", "parse" (ParserV1.parse) or "load" (load on inflated data)
    pc,                \* "idle", "entity", "mesh", "done", "failed"
    error,             \* the exception that ended the run, "none" otherwise
    inflatedData,      \* load's argument (<<>> until load is entered)
    entityIDs,         \* load's local: JSON.parse(inflatedData.entityIDs)
    i,                 \* load's outer loop variable
    j,                 \* load's inner loop variable
    jlen,              \* load's inner loop bound
    meshIds,           \* load's local, the ids pushed for the current entity
    entityDefaults,    \* load's local
    meshDefaults,      \* load's local
    color2,            \* the Float32Array(3) closed over by decompressColor
    performanceModel   \* compression flags and the log of builder calls

vars == <<elements, viewer, options, entry, pc, error, inflatedData, entityIDs,
          i, j, jlen, meshIds, entityDefaults, meshDefaults, color2, performanceModel>>

----------------------------------------------------------------------------
(* Bounds of the model.                                                    *)

MaxEntities == 3
MaxMeshes == 2
MaxData == 3

----------------------------------------------------------------------------
(* JavaScript primitives used by the parser.                               *)

Undefined == -1

NaN == <<0, 0>>

Min(a, b) == IF a < b THEN a ELSE b

Max(a, b) == IF a > b THEN a ELSE b

RECURSIVE GCD(_, _)
GCD(a, b) == IF b = 0 THEN a ELSE GCD(b, a % b)

\* x / 255.0 for an element x of a typed array, undefined / 255.0 = NaN
Div255(x) ==
    IF x = Undefined THEN NaN
    ELSE LET g == GCD(x, 255) IN <<x \div g, 255 \div g>>

\* arr[k] for a typed array arr and a (zero-based) index k
Get(arr, k) == IF k >= 0 /\ k < Len(arr) THEN arr[k + 1] ELSE Undefined

\* TypedArray.prototype.subarray(b, e) of the array named name, of length len:
\* an undefined begin is 0, an undefined end is the length, both are clamped
\* to the length, and the view is empty when the end precedes the begin.
Subarray(name, len, b, e) ==
    LET rb == IF b = Undefined THEN 0 ELSE Min(b, len)
        re == IF e = Undefined THEN len ELSE Min(e, len)
    IN  [buffer |-> name, begin |-> rb, length |-> Max(re - rb, 0)]

\* view[k] for a view of the array arr
ViewGet(arr, view, k) ==
    IF k >= 0 /\ k < view.length THEN Get(arr, view.begin + k) ELSE Undefined

\* the decimal digits of a non-negative integer (number -> string)
DigitOf(d) == <<"0", "1", "2", "3", "4", "5", "6", "7", "8", "9">>[d + 1]

RECURSIVE NumToStr(_)
NumToStr(n) == IF n < 10 THEN <<DigitOf(n)>> ELSE NumToStr(n \div 10) \o <<DigitOf(n % 10)>>

\* the value of entityIDs[k] when k is out of range
UndefinedStr == <<"#undefined">>

\* string conversion of a value used in a concatenation
ToStr(s) == IF s = UndefinedStr THEN <<"undefined">> ELSE s

\* JSON.parse of the entity id list.  The text is a sequence of tokens:
\* <<"[">>, <<"]">>, <<",">> and string literals <<"str", id>>.  The result is
\* [ok |-> FALSE] (SyntaxError) or [ok |-> TRUE, value |-> the list of ids].
JSONparse(text) ==
    LET n == Len(text)
        inner == IF n >= 2 THEN SubSeq(text, 2, n - 1) ELSE <<>>
        m == Len(inner)
        wellFormed ==
            /\ n >= 2
            /\ text[1] = <<"[">>
            /\ text[n] = <<"]">>
            /\ \/ m = 0
               \/ /\ m % 2 = 1
                  /\ \A k \in 1..m :
                        IF k % 2 = 1 THEN Len(inner[k]) = 2 /\ inner[k][1] = "str"
                        ELSE inner[k] = <<",">>
    IN  IF wellFormed
        THEN [ok |-> TRUE, value |-> [k \in 1..((m + 1) \div 2) |-> inner[2 * k - 1][2]]]
        ELSE [ok |-> FALSE, value |-> <<>>]

\* the inverse used to build inputs: JSON.stringify of a list of ids
RECURSIVE JSONitems(_)
JSONitems(ids) ==
    IF ids = <<>> THEN <<>>
    ELSE IF Len(ids) = 1 THEN << <<"str", ids[1]>> >>
    ELSE << <<"str", ids[1]>>, <<",">> >> \o JSONitems(Tail(ids))

JSONstringify(ids) == << <<"[">> >> \o JSONitems(ids) \o << <<"]">> >>

----------------------------------------------------------------------------
(* The module-level functions of ParserV1.js.                              *)

\* the names of the 12 positional slots, in container order
SlotNames ==
    <<"positions", "normals", "indices", "edgeIndices", "meshPositions", "meshIndices",
      "meshEdgesIndices", "meshColors", "entityIDs", "entityMeshes", "entityIsObjects",
      "positionsDecodeMatrix">>

\* decompressColor: writes the three channels into the shared color2 and
\* returns it; the result is the new contents of color2
decompressColor(arr, color) ==
    <<Div255(ViewGet(arr, color, 0)), Div255(ViewGet(arr, color, 1)), Div255(ViewGet(arr, color, 2))>>

extract(elems) ==
    [positions |-> elems[1], normals |-> elems[2], indices |-> elems[3],
     edgeIndices |-> elems[4], meshPositions |-> elems[5], meshIndices |-> elems[6],
     meshEdgesIndices |-> elems[7], meshColors |-> elems[8], entityIDs |-> elems[9],
     entityMeshes |-> elems[10], entityIsObjects |-> elems[11],
     positionsDecodeMatrix |-> elems[12]]

\* the value of a parameter for which the caller passed no argument
NoArgument == "undefined"

\* the object literal returned by inflate: each slot inflated
InflatedOf(deflatedData) ==
    [positions |-> deflatedData.positions.data, normals |-> deflatedData.normals.data,
     indices |-> deflatedData.indices.data, edgeIndices |-> deflatedData.edgeIndices.data,
     meshPositions |-> deflatedData.meshPositions.data,
     meshIndices |-> deflatedData.meshIndices.data,
     meshEdgesIndices |-> deflatedData.meshEdgesIndices.data,
     meshColors |-> deflatedData.meshColors.data, entityIDs |-> deflatedData.entityIDs.data,
     entityMeshes |-> deflatedData.entityMeshes.data,
     entityIsObjects |-> deflatedData.entityIsObjects.data,
     positionsDecodeMatrix |-> deflatedData.positionsDecodeMatrix.data]

\* inflate(deflatedData, pako).  A deflated buffer is [ok, data]: ok says
\* whether it is a valid compressed stream, data is what it inflates to.  The
\* slots are inflated in the order of the object literal; the first
\* expression evaluated is pako.inflate, a TypeError when pako is undefined.
\* pako is the parameter: it shadows the module-level pako of lines 52-55.
inflate(deflatedData, pako) ==
    IF pako = NoArgument THEN [ok |-> FALSE, error |-> "TypeError", data |-> <<>>]
    ELSE IF \E k \in 1..12 : ~deflatedData[SlotNames[k]].ok
         THEN [ok |-> FALSE, error |-> "InflateError", data |-> <<>>]
         ELSE [ok |-> TRUE, error |-> "none", data |-> InflatedOf(deflatedData)]

\* utils.apply(o, o2) of viewer/scene/utils.js: the merge of the defaults
\* object o and the literal object o2; a literal field is kept
utilsApply(o, o2) == o2 @@ o

\* viewer.metaScene.metaObjects[entityId]; a meta object is
\* [present, type], type "" standing for a missing or empty type
NoMetaObject == [present |-> FALSE, type |-> ""]

MetaObjectOf(v, entityId) ==
    IF ToStr(entityId) \in DOMAIN v THEN v[ToStr(entityId)] ELSE NoMetaObject

\* SkipEntity with the include test applied to a meta object without a type
SkipEntity_NoTypeGuard(opts, metaObject) ==
    IF metaObject.present
    THEN \/ /\ opts.excludeTypesMap.configured
            /\ metaObject.type # ""
            /\ metaObject.type \in opts.excludeTypesMap.types
         \/ /\ opts.includeTypesMap.configured
            /\ metaObject.type \notin opts.includeTypesMap.types
    ELSE opts.excludeUnclassifiedObjects

\* the two `continue` branches of the metaObject test and the one of its else
SkipEntity(opts, metaObject) ==
    IF metaObject.present
    THEN \/ /\ opts.excludeTypesMap.configured
            /\ metaObject.type # ""
            /\ metaObject.type \in opts.excludeTypesMap.types
         \/ /\ opts.includeTypesMap.configured
            /\ metaObject.type # ""
            /\ metaObject.type \notin opts.includeTypesMap.types
    ELSE opts.excludeUnclassifiedObjects

\* props = options.objectDefaults ? options.objectDefaults[type || "DEFAULT"] : null
\* (an absent entry and null both give [defined |-> FALSE])
PropsOf(opts, metaObject) ==
    LET key == IF metaObject.type # "" THEN metaObject.type ELSE "DEFAULT"
    IN  IF opts.objectDefaults.configured /\ key \in DOMAIN opts.objectDefaults.map
        THEN [defined |-> TRUE, obj |-> opts.objectDefaults.map[key]]
        ELSE [defined |-> FALSE, obj |-> <<>>]

EntityDefaultsOf(opts, metaObject) ==
    LET props == PropsOf(opts, metaObject)
        vis == IF props.defined /\ "visible" \in DOMAIN props.obj /\ props.obj["visible"] = FALSE
               THEN ("visible" :> FALSE) ELSE <<>>
        pick == IF props.defined /\ "pickable" \in DOMAIN props.obj /\ props.obj["pickable"] = FALSE
                THEN ("pickable" :> FALSE) ELSE <<>>
    IN  IF metaObject.present THEN vis @@ pick ELSE <<>>

MeshDefaultsOf(opts, metaObject) ==
    LET props == PropsOf(opts, metaObject)
        col == IF props.defined /\ "colorize" \in DOMAIN props.obj
               THEN ("color" :> props.obj["colorize"]) ELSE <<>>
        opa == IF props.defined /\ "opacity" \in DOMAIN props.obj
               THEN ("opacity" :> props.obj["opacity"]) ELSE <<>>
    IN  IF metaObject.present THEN col @@ opa ELSE <<>>

\* entityIDs[k]
EntityIdAt(ids, k) == IF k >= 0 /\ k < Len(ids) THEN ids[k + 1] ELSE UndefinedStr

\* MeshIdOf without the mesh index
MeshIdOf_NoIndex(entityId, jj) == ToStr(entityId) \o <<".mesh.">>

\* const meshId = entityId + ".mesh." + j
MeshIdOf(entityId, jj) == ToStr(entityId) \o <<".mesh.">> \o NumToStr(jj)

\* PushMeshId as meshIds.unshift(meshId)
PushMeshId_Unshift(ids, meshId) == <<meshId>> \o ids

\* meshIds.push(meshId)
PushMeshId(ids, meshId) == Append(ids, meshId)

\* Thrown with the builder call wrapped in a try/catch that goes on
Thrown_Swallowed(accepted) == FALSE

\* a builder call that throws: load has no try/catch, the exception leaves
\* the two loops, load and ParserV1.parse
Thrown(accepted) == ~accepted

\* jlen = lastEntity ? entityMeshes.length : entityMeshes[i + 1]
JlenOf(data, ii) ==
    LET numEntities == Len(data.entityMeshes)
        lastEntity == (ii = numEntities - 1)
    IN  IF lastEntity THEN Len(data.entityMeshes) ELSE Get(data.entityMeshes, ii + 1)

\* const lastMesh = (j === (numMeshes - 1))
LastMesh(data, jj) == (jj = Len(data.meshPositions) - 1)

\* the four subarray expressions of the createMesh argument
PositionsSlice(data, jj) ==
    Subarray("positions", Len(data.positions), Get(data.meshPositions, jj),
             IF LastMesh(data, jj) THEN Len(data.positions) ELSE Get(data.meshPositions, jj + 1))

NormalsSlice(data, jj) ==
    Subarray("normals", Len(data.normals), Get(data.meshPositions, jj),
             IF LastMesh(data, jj) THEN Len(data.positions) ELSE Get(data.meshPositions, jj + 1))

IndicesSlice(data, jj) ==
    Subarray("indices", Len(data.indices), Get(data.meshIndices, jj),
             IF LastMesh(data, jj) THEN Len(data.indices) ELSE Get(data.meshIndices, jj + 1))

EdgeIndicesSlice(data, jj) ==
    Subarray("edgeIndices", Len(data.edgeIndices), Get(data.meshEdgesIndices, jj),
             IF LastMesh(data, jj) THEN Len(data.edgeIndices) ELSE Get(data.meshEdgesIndices, jj + 1))

\* meshColors.subarray((j * 4), (j * 4) + 3)
ColorView(data, jj) == Subarray("meshColors", Len(data.meshColors), jj * 4, (jj * 4) + 3)

\* the literal object passed to createMesh; its color is the array color2
\* itself, recorded with the contents it has at the call
MeshCfg(data, entityId, jj, colorNow) ==
    [id |-> MeshIdOf(entityId, jj),
     primitive |-> "triangles",
     positions |-> PositionsSlice(data, jj),
     normals |-> NormalsSlice(data, jj),
     indices |-> IndicesSlice(data, jj),
     edgeIndices |-> EdgeIndicesSlice(data, jj),
     positionsDecodeMatrix |-> data.positionsDecodeMatrix,
     color |-> [buffer |-> "color2", elems |-> colorNow],
     opacity |-> Div255(Get(data.meshColors, (jj * 4) + 3))]

\* the literal object passed to createEntity
EntityCfg(data, entityId, ii, ids) ==
    [id |-> entityId,
     isObject |-> (Get(data.entityIsObjects, ii) = 1),
     meshIds |-> ids]

----------------------------------------------------------------------------
(* Inputs: the containers, options and meta scenes the model explores.     *)

Types == {"Wall", "Door"}

\* the non-decreasing sequences of length n over 0..hi
NonDecreasing(n, hi) ==
    {s \in [1..n -> 0..hi] : \A k \in 1..n : k < n => s[k] <= s[k + 1]}

\* n entity ids: "e1", "e2", ... (plain); "e", "e.mesh.0", "e.mesh.0.mesh.0",
\* ... (nested: each id is a mesh id of the previous entity); all "e" (same)
RECURSIVE NestedId(_)
NestedId(k) == IF k <= 1 THEN <<"e">> ELSE NestedId(k - 1) \o <<".mesh.", "0">>

IdKinds == {"plain", "nested", "same"}

IdsOf(kind, n) ==
    [k \in 1..n |->
        IF kind = "plain" THEN <<"e">> \o NumToStr(k)
        ELSE IF kind = "nested" THEN NestedId(k)
        ELSE <<"e">>]

\* the RGBA quad of mesh k (zero-based) in the default containers
DefaultColor(k) == <<255, (51 * k) % 256, 128, 64>>

RECURSIVE Flatten(_)
Flatten(ss) == IF ss = <<>> THEN <<>> ELSE Head(ss) \o Flatten(Tail(ss))

IdentityMatrix == [k \in 1..16 |-> IF k % 5 = 1 THEN 1 ELSE 0]

\* a decoded container
Decoded(ps, ns, is, es, mp, mi, me, mc, idsText, em, eo) ==
    [positions |-> ps, normals |-> ns, indices |-> is, edgeIndices |-> es,
     meshPositions |-> mp, meshIndices |-> mi, meshEdgesIndices |-> me,
     meshColors |-> mc, entityIDs |-> idsText, entityMeshes |-> em,
     entityIsObjects |-> eo, positionsDecodeMatrix |-> IdentityMatrix]

\* the container of m meshes with one position, two indices and no edge
\* index per mesh (the last mesh has one more of each), for the given entities
DefaultContainer(m, ids, entityMeshes) ==
    Decoded([k \in 1..(m + 1) |-> k], [k \in 1..(m + 1) |-> 0],
            [k \in 1..(2 * m + 1) |-> 0], [k \in 1..1 |-> 0],
            [k \in 1..m |-> k - 1], [k \in 1..m |-> 2 * (k - 1)], [k \in 1..m |-> 0],
            Flatten([k \in 1..m |-> DefaultColor(k - 1)]),
            JSONstringify(ids), entityMeshes, [k \in 1..Len(ids) |-> k % 2])

\* the 12 deflated buffers of a decoded container; the slots in corrupt are
\* not valid compressed streams
Deflated(data, corrupt) ==
    [k \in 1..12 |-> [ok |-> SlotNames[k] \notin corrupt, data |-> data[SlotNames[k]]]]

NoMap == [configured |-> FALSE, types |-> {}]

TypeMap(ts) == [configured |-> TRUE, types |-> ts]

NoObjectDefaults == [configured |-> FALSE, map |-> <<>>]

MetaOf(type) == [present |-> TRUE, type |-> type]

Range(f) == {f[x] : x \in DOMAIN f}

----------------------------------------------------------------------------
(* The state after the module is loaded, before ParserV1.parse is called.  *)

InitLocals ==
    /\ entry = "none"
    /\ pc = "idle"
    /\ error = "none"
    /\ inflatedData = <<>>
    /\ entityIDs = <<>>
    /\ i = 0
    /\ j = 0
    /\ jlen = 0
    /\ meshIds = <<>>
    /\ entityDefaults = <<>>
    /\ meshDefaults = <<>>
    /\ color2 = <<Div255(0), Div255(0), Div255(0)>>
    /\ performanceModel = [positionsCompression |-> "none", normalsCompression |-> "none",
                           calls |-> <<>>]

\* every shape of the entity table, with an exclude filter that skips any
\* subset of the entities
InitShapes ==
    \E n \in 0..MaxEntities, m \in 0..MaxMeshes, kind \in IdKinds :
    \E em \in NonDecreasing(n, MaxMeshes) :
    \E v \in [Range(IdsOf(kind, n)) -> {MetaOf("Wall"), MetaOf("Door")}] :
        /\ elements = Deflated(DefaultContainer(m, IdsOf(kind, n), em), {})
        /\ viewer = v
        /\ options = [excludeTypesMap |-> TypeMap({"Wall"}), includeTypesMap |-> NoMap,
                      excludeUnclassifiedObjects |-> FALSE, objectDefaults |-> NoObjectDefaults]

\* every filter configuration and every classification of the entities, for
\* containers of one mesh per entity and of meshes owned by the first entity
InitFilters ==
    \E n \in 1..MaxEntities, ex \in {NoMap, TypeMap({"Wall"})}, inc \in {NoMap, TypeMap({"Door"})},
       unc \in BOOLEAN, first \in BOOLEAN :
    \E v \in [Range(IdsOf("plain", n)) ->
                 {NoMetaObject, MetaOf(""), MetaOf("Wall"), MetaOf("Door")}] :
        /\ elements = Deflated(DefaultContainer(IF first THEN MaxMeshes ELSE n, IdsOf("plain", n),
                                   [k \in 1..n |-> IF first THEN (IF k = 1 THEN 0 ELSE MaxMeshes)
                                                   ELSE k - 1]), {})
        /\ viewer = v
        /\ options = [excludeTypesMap |-> ex, includeTypesMap |-> inc,
                      excludeUnclassifiedObjects |-> unc, objectDefaults |-> NoObjectDefaults]

Init == InitLocals /\ (InitShapes \/ InitFilters)

BaseOptions ==
    [excludeTypesMap |-> NoMap, includeTypesMap |-> NoMap,
     excludeUnclassifiedObjects |-> FALSE, objectDefaults |-> NoObjectDefaults]

\* every choice of the three mesh offset tables and of the lengths of the
\* shared arrays, for one entity and for two entities that split the meshes
InitTables ==
    \E m \in 0..MaxMeshes, pl \in 0..MaxData, il \in 0..MaxData, el \in 0..MaxData, n \in 1..2 :
    \E mp \in NonDecreasing(m, pl), mi \in NonDecreasing(m, il), me \in NonDecreasing(m, el) :
        /\ elements = Deflated(Decoded([k \in 1..pl |-> k], [k \in 1..pl |-> 0],
                                       [k \in 1..il |-> 0], [k \in 1..el |-> 0], mp, mi, me,
                                       Flatten([k \in 1..m |-> DefaultColor(k - 1)]),
                                       JSONstringify(IdsOf("plain", n)),
                                       [k \in 1..n |-> IF k = 1 THEN 0 ELSE 1],
                                       [k \in 1..n |-> 1]), {})
        /\ viewer = <<>>
        /\ options = BaseOptions

Quads == {<<255, 0, 128, 64>>, <<0, 0, 0, 0>>, <<255, 255, 255, 255>>, <<51, 102, 204, 1>>}

Red == <<Div255(255), Div255(0), Div255(0)>>

DefaultProps ==
    {<<>>,
     [visible |-> FALSE, pickable |-> FALSE],
     [colorize |-> Red, opacity |-> Div255(0)],
     [visible |-> TRUE, pickable |-> FALSE, colorize |-> Red]}

\* every coloring of the meshes and every type default, for one entity and
\* for two entities of which the first owns all the meshes
InitColors ==
    \E m \in 1..MaxMeshes, n \in 1..2, props \in DefaultProps, key \in {"Wall", "DEFAULT"},
       meta \in {NoMetaObject, MetaOf(""), MetaOf("Wall")} :
    \E quads \in [1..m -> Quads] :
        /\ elements = Deflated([DefaultContainer(m, IdsOf("plain", n),
                                                 [k \in 1..n |-> IF k = 1 THEN 0 ELSE m])
                                  EXCEPT !.meshColors = Flatten(quads)], {})
        /\ viewer = [id \in Range(IdsOf("plain", n)) |-> meta]
        /\ options = [BaseOptions EXCEPT !.objectDefaults =
                         [configured |-> TRUE, map |-> (key :> props)]]

\* containers whose tables contradict each other, whose entity id list is
\* not well-formed, or some of whose buffers are not valid compressed streams
InconsistentContainers ==
    LET ok == DefaultContainer(2, IdsOf("plain", 2), <<0, 1>>) IN
    {[ok EXCEPT !.meshIndices = <<0>>],
     [ok EXCEPT !.meshEdgesIndices = <<0, 0, 0>>],
     [ok EXCEPT !.meshColors = DefaultColor(0)],
     [ok EXCEPT !.entityIDs = JSONstringify(IdsOf("plain", 1))],
     [ok EXCEPT !.entityIDs = JSONstringify(IdsOf("plain", 3))],
     [ok EXCEPT !.entityIsObjects = <<1>>],
     [ok EXCEPT !.entityMeshes = <<1, 0>>],
     [ok EXCEPT !.entityMeshes = <<0, 1, 1>>],
     [ok EXCEPT !.meshPositions = <<1, 0>>],
     [ok EXCEPT !.meshIndices = <<2, 0>>],
     [ok EXCEPT !.normals = <<0>>],
     [ok EXCEPT !.entityIDs = << <<"[">>, <<"str", <<"e", "1">>>> >>],
     [ok EXCEPT !.entityIDs = << <<"[">>, <<"str", <<"e", "1">>>>, <<",">>, <<"]">> >>]}

InitInvalid ==
    \/ \E data \in InconsistentContainers, meta \in {NoMetaObject, MetaOf("Wall")} :
          /\ elements = Deflated(data, {})
          /\ viewer = [id \in Range(IdsOf("plain", 2)) |-> meta]
          /\ options = [BaseOptions EXCEPT !.excludeTypesMap = TypeMap({"Door"})]
    \/ \E k \in 0..12, m \in 0..MaxMeshes, n \in 0..2 :
          /\ elements = Deflated(DefaultContainer(m, IdsOf("plain", n), [e \in 1..n |-> 0]),
                                 IF k = 0 THEN {} ELSE {SlotNames[k]})
          /\ viewer = <<>>
          /\ options = BaseOptions

InitData == InitLocals /\ (InitTables \/ InitColors \/ InitInvalid)

----------------------------------------------------------------------------
(* The steps of the parser.                                                *)

\* lines 103-118 of load: the compression flags, JSON.parse of the entity
\* ids (a SyntaxError ends the run), the loop counter
LoadPrologue(data) ==
    LET parsed == JSONparse(data.entityIDs) IN
    /\ inflatedData' = data
    /\ performanceModel' = [performanceModel EXCEPT !.positionsCompression = "precompressed",
                                                    !.normalsCompression = "precompressed"]
    /\ IF parsed.ok
       THEN /\ entityIDs' = parsed.value
            /\ pc' = "entity"
            /\ error' = "none"
       ELSE /\ entityIDs' = <<>>
            /\ pc' = "failed"
            /\ error' = "SyntaxError"
    /\ i' = 0
    /\ UNCHANGED <<elements, viewer, options, j, jlen, meshIds, entityDefaults, meshDefaults, color2>>

\* ParserV1.parse: extract, inflate (called without its pako argument), load
Parse ==
    /\ pc = "idle"
    /\ entry' = "parse"
    /\ LET deflatedData == extract(elements)
           inflated == inflate(deflatedData, NoArgument)
       IN  IF inflated.ok
           THEN LoadPrologue(inflated.data)
           ELSE /\ pc' = "failed"
                /\ error' = inflated.error
                /\ UNCHANGED <<elements, viewer, options, inflatedData, entityIDs, i, j, jlen,
                               meshIds, entityDefaults, meshDefaults, color2, performanceModel>>

\* load entered with the arrays the 12 buffers inflate to
Load ==
    /\ pc = "idle"
    /\ \A k \in 1..12 : elements[k].ok
    /\ entry' = "load"
    /\ LoadPrologue(InflatedOf(extract(elements)))

\* one pass through the head of the entity loop (lines 120-162): the entity
\* is skipped, or its defaults are set and its mesh loop is initialised
EntityStep ==
    /\ pc = "entity"
    /\ i < Len(inflatedData.entityMeshes)
    /\ LET entityId == EntityIdAt(entityIDs, i)
           metaObject == MetaObjectOf(viewer, entityId)
       IN  IF SkipEntity(options, metaObject)
           THEN /\ i' = i + 1
                /\ UNCHANGED <<pc, j, jlen, meshIds, entityDefaults, meshDefaults>>
           ELSE /\ entityDefaults' = EntityDefaultsOf(options, metaObject)
                /\ meshDefaults' = MeshDefaultsOf(options, metaObject)
                /\ meshIds' = <<>>
                /\ j' = Get(inflatedData.entityMeshes, i)
                /\ jlen' = JlenOf(inflatedData, i)
                /\ pc' = "mesh"
                /\ UNCHANGED i
    /\ UNCHANGED <<elements, viewer, options, entry, error, inflatedData, entityIDs, color2,
                   performanceModel>>

\* one iteration of the mesh loop (lines 162-183): the color is written into
\* color2, createMesh is called; the performance model accepts the record or
\* throws, and nothing in load catches
MeshStep ==
    /\ pc = "mesh"
    /\ j < jlen
    /\ \E accepted \in BOOLEAN :
        LET entityId == EntityIdAt(entityIDs, i)
            colorNow == decompressColor(inflatedData.meshColors, ColorView(inflatedData, j))
            cfg == utilsApply(meshDefaults, MeshCfg(inflatedData, entityId, j, colorNow))
            call == [call |-> "createMesh", cfg |-> cfg, accepted |-> accepted,
                     entity |-> i, mesh |-> j]
        IN  /\ color2' = colorNow
            /\ performanceModel' = [performanceModel EXCEPT !.calls = Append(@, call)]
            /\ IF Thrown(accepted)
               THEN /\ pc' = "failed"
                    /\ error' = "BuilderRejection"
                    /\ UNCHANGED <<meshIds, j>>
               ELSE /\ meshIds' = PushMeshId(meshIds, cfg.id)
                    /\ j' = j + 1
                    /\ UNCHANGED <<pc, error>>
    /\ UNCHANGED <<elements, viewer, options, entry, inflatedData, entityIDs, i, jlen,
                   entityDefaults, meshDefaults>>

\* the end of the mesh loop (lines 185-190): createEntity, next entity
EntityCreate ==
    /\ pc = "mesh"
    /\ ~(j < jlen)
    /\ \E accepted \in BOOLEAN :
        LET entityId == EntityIdAt(entityIDs, i)
            cfg == utilsApply(entityDefaults, EntityCfg(inflatedData, entityId, i, meshIds))
            call == [call |-> "createEntity", cfg |-> cfg, accepted |-> accepted,
                     entity |-> i, mesh |-> j]
        IN  /\ performanceModel' = [performanceModel EXCEPT !.calls = Append(@, call)]
            /\ IF Thrown(accepted)
               THEN /\ pc' = "failed"
                    /\ error' = "BuilderRejection"
                    /\ UNCHANGED i
               ELSE /\ i' = i + 1
                    /\ pc' = "entity"
                    /\ UNCHANGED error
    /\ UNCHANGED <<elements, viewer, options, entry, inflatedData, entityIDs, j, jlen, meshIds,
                   entityDefaults, meshDefaults, color2>>

\* the entity loop ends and load returns
LoadReturn ==
    /\ pc = "entity"
    /\ ~(i < Len(inflatedData.entityMeshes))
    /\ pc' = "done"
    /\ UNCHANGED <<elements, viewer, options, entry, error, inflatedData, entityIDs, i, j, jlen,
                   meshIds, entityDefaults, meshDefaults, color2, performanceModel>>

Next == Parse \/ Load \/ EntityStep \/ MeshStep \/ EntityCreate \/ LoadReturn

Spec == Init /\ [][Next]_vars

SpecData == InitData /\ [][Next]_vars

----------------------------------------------------------------------------
(* Vocabulary of the properties.                                           *)

\* the decoded container of the run: what the 12 buffers inflate to, which
\* is load's argument once load is entered
Container == IF entry = "load" THEN inflatedData ELSE InflatedOf(extract(elements))

Calls == performanceModel.calls

NumEntities == Len(Container.entityMeshes)

NumMeshes == Len(Container.meshPositions)

IsNonDecreasing(s) == \A k \in 1..Len(s) : k < Len(s) => s[k] <= s[k + 1]

IdList == JSONparse(Container.entityIDs)

\* the invariants of the decoded container
ValidContainer ==
    /\ IdList.ok
    /\ Len(IdList.value) = NumEntities
    /\ \A a, b \in 1..NumEntities : a # b => IdList.value[a] # IdList.value[b]
    /\ Len(Container.entityIsObjects) = NumEntities
    /\ IsNonDecreasing(Container.entityMeshes)
    /\ \A k \in 1..NumEntities : Container.entityMeshes[k] <= NumMeshes
    /\ Len(Container.meshIndices) = NumMeshes
    /\ Len(Container.meshEdgesIndices) = NumMeshes
    /\ Len(Container.meshColors) = 4 * NumMeshes
    /\ Len(Container.normals) = Len(Container.positions)
    /\ IsNonDecreasing(Container.meshPositions)
    /\ IsNonDecreasing(Container.meshIndices)
    /\ IsNonDecreasing(Container.meshEdgesIndices)
    /\ \A k \in 1..NumMeshes :
          /\ Container.meshPositions[k] <= Len(Container.positions)
          /\ Container.meshIndices[k] <= Len(Container.indices)
          /\ Container.meshEdgesIndices[k] <= Len(Container.edgeIndices)

\* the mesh range of entity e (zero-based) as the format defines it:
\* [entityMeshes[e], entityMeshes[e+1]), the last entity extending to M
RangeEnd(e) ==
    IF e < NumEntities - 1 THEN Container.entityMeshes[e + 2] ELSE NumMeshes

MeshRange(e) == {m \in 0..(MaxMeshes + MaxEntities) :
                    Container.entityMeshes[e + 1] <= m /\ m < RangeEnd(e)}

MetaOfEntity(e) == MetaObjectOf(viewer, IdList.value[e + 1])

\* the positions in the call log of the calls of one kind
MeshCalls == {k \in DOMAIN Calls : Calls[k].call = "createMesh"}

EntityCalls == {k \in DOMAIN Calls : Calls[k].call = "createEntity"}

\* load ran on the container and returned
Returned == entry = "load" /\ pc = "done"

----------------------------------------------------------------------------
(* C1: for every valid container and filter configuration, a completed     *)
(* load has made exactly one createEntity call per entity that passes the  *)
(* filters and none for the others; the meshIds of the call of entity e    *)
(* has the size of e's mesh range ([entityMeshes[e], entityMeshes[e+1]),   *)
(* the last entity extending to M), and an entity with an empty range has  *)
(* no createMesh call.                                                     *)
C1_EntityCallsMatchRanges ==
    (Returned /\ ValidContainer) =>
        \A e \in 0..(NumEntities - 1) :
            LET mine == {k \in EntityCalls : Calls[k].cfg.id = IdList.value[e + 1]}
            IN  IF SkipEntity(options, MetaOfEntity(e))
                THEN mine = {}
                ELSE /\ Cardinality(mine) = 1
                     /\ \A k \in mine : Len(Calls[k].cfg.meshIds) = Cardinality(MeshRange(e))
                     /\ MeshRange(e) = {} => \A k \in MeshCalls : Calls[k].entity # e

----------------------------------------------------------------------------
(* C3: an entity is skipped (no createEntity call for it, no createMesh    *)
(* call made for it or for a mesh of its range) if and only if its         *)
(* metadata exists and its type is in the exclude set, or an include set   *)
(* is configured and its type is not in it, or its metadata is absent and  *)
(* excludeUnclassified is set.  Stated as in the claim: the type of a meta *)
(* object that has none counts as "not in the include set".                *)

NoCallFor(e) ==
    /\ \A k \in EntityCalls : Calls[k].entity # e /\ Calls[k].cfg.id # IdList.value[e + 1]
    /\ \A k \in MeshCalls : Calls[k].entity # e /\ Calls[k].mesh \notin MeshRange(e)

CreatedOnce(e) ==
    Cardinality({k \in EntityCalls : Calls[k].entity = e
                                     /\ Calls[k].cfg.id = IdList.value[e + 1]}) = 1

ClaimedSkip(meta) ==
    \/ /\ meta.present
       /\ \/ options.excludeTypesMap.configured /\ meta.type \in options.excludeTypesMap.types
          \/ options.includeTypesMap.configured /\ meta.type \notin options.includeTypesMap.types
    \/ ~meta.present /\ options.excludeUnclassifiedObjects

AmendedSkip(meta) ==
    \/ /\ meta.present
       /\ meta.type # ""
       /\ \/ options.excludeTypesMap.configured /\ meta.type \in options.excludeTypesMap.types
          \/ options.includeTypesMap.configured /\ meta.type \notin options.includeTypesMap.types
    \/ ~meta.present /\ options.excludeUnclassifiedObjects

C3_SkipIffFiltered_Original ==
    (entry = "load" /\ ValidContainer) =>
        \A e \in 0..(NumEntities - 1) :
            /\ ClaimedSkip(MetaOfEntity(e)) => NoCallFor(e)
            /\ (pc = "done" /\ ~ClaimedSkip(MetaOfEntity(e))) => CreatedOnce(e)

(* C3 as amended: the type filters apply only to a meta object that has a  *)
(* (non-empty) type; an entity whose meta object has no type, like one     *)
(* without metadata when excludeUnclassified is not set, is processed.     *)
C3_SkipIffFiltered ==
    (entry = "load" /\ ValidContainer) =>
        \A e \in 0..(NumEntities - 1) :
            /\ AmendedSkip(MetaOfEntity(e)) => NoCallFor(e)
            /\ (pc = "done" /\ ~AmendedSkip(MetaOfEntity(e))) => CreatedOnce(e)

\* a completed load that skipped one entity by the include set and created
\* an entity without metadata and an entity whose meta object has no type
C3_Witness ==
    /\ Returned /\ ValidContainer
    /\ options.includeTypesMap.configured
    /\ ~options.excludeUnclassifiedObjects
    /\ \E a, b, c \in 0..(NumEntities - 1) :
          /\ MetaOfEntity(a).present /\ MetaOfEntity(a).type = "Wall" /\ NoCallFor(a)
          /\ ~MetaOfEntity(b).present /\ CreatedOnce(b)
          /\ MetaOfEntity(c).present /\ MetaOfEntity(c).type = "" /\ CreatedOnce(c)

----------------------------------------------------------------------------
(* C4: in the call log of one run, createEntity calls are in strictly      *)
(* ascending entity order; a createMesh call of entity e comes after the   *)
(* createEntity call of every earlier entity and before that of e; the     *)
(* createMesh calls of one entity are in ascending mesh order; and the     *)
(* meshIds of e's createEntity call lists exactly the ids of e's           *)
(* createMesh calls, in call order.                                        *)

MeshIdsCalled(e) ==
    LET IsMeshOf(c) == c.call = "createMesh" /\ c.entity = e
        mine == SelectSeq(Calls, IsMeshOf)
    IN  [k \in 1..Len(mine) |-> mine[k].cfg.id]

C4_CallOrder ==
    /\ \A k, l \in EntityCalls : k < l => Calls[k].entity < Calls[l].entity
    /\ \A k \in MeshCalls, l \in EntityCalls :
          /\ Calls[l].entity < Calls[k].entity => l < k
          /\ Calls[l].entity >= Calls[k].entity => k < l
    /\ \A k, l \in MeshCalls :
          (k < l /\ Calls[k].entity = Calls[l].entity) => Calls[k].mesh < Calls[l].mesh
    /\ \A k \in EntityCalls :
          /\ Calls[k].cfg.id = EntityIdAt(entityIDs, Calls[k].entity)
          /\ Calls[k].cfg.meshIds = MeshIdsCalled(Calls[k].entity)

\* a completed load that created two entities, the second one with two meshes
C4_Witness ==
    /\ Returned
    /\ Cardinality(EntityCalls) >= 2
    /\ \E k \in EntityCalls : Len(Calls[k].cfg.meshIds) >= 2 /\ Calls[k].entity >= 1

----------------------------------------------------------------------------
(* C9: within one run on a container of distinct entity ids and            *)
(* non-decreasing entityMeshes, the ids passed to createMesh are pairwise  *)
(* distinct, each is the owning entity's id followed by ".mesh." and the   *)
(* decimal mesh index, and no mesh index is emitted twice.                 *)
C9_MeshIdsDistinct ==
    (entry = "load" /\ ValidContainer) =>
        /\ \A k, l \in MeshCalls :
              k # l => /\ Calls[k].cfg.id # Calls[l].cfg.id
                       /\ Calls[k].mesh # Calls[l].mesh
        /\ \A k \in MeshCalls :
              LET id == Calls[k].cfg.id
                  owner == IdList.value[Calls[k].entity + 1]
                  digits == NumToStr(Calls[k].mesh)
              IN  /\ Len(id) = Len(owner) + 1 + Len(digits)
                  /\ SubSeq(id, 1, Len(owner)) = owner
                  /\ id[Len(owner) + 1] = ".mesh."
                  /\ SubSeq(id, Len(owner) + 2, Len(id)) = digits

\* a run that made createMesh calls for two entities, one of them twice,
\* where the id of one entity is a mesh id of the other
C9_Witness ==
    /\ entry = "load" /\ ValidContainer
    /\ \E k, l, n \in MeshCalls :
          /\ k # l /\ Calls[k].entity = Calls[l].entity
          /\ Calls[n].entity # Calls[k].entity
    /\ \E a, b \in 1..NumEntities : IdList.value[b] = MeshIdOf(IdList.value[a], 0)

----------------------------------------------------------------------------
(* C10: when the builder rejects a record, the failure leaves load at      *)
(* once: the rejected call is the last call of the run, whatever entities  *)
(* and meshes remain.                                                      *)
C10_RejectionAborts ==
    \A k \in DOMAIN Calls :
        ~Calls[k].accepted =>
            /\ k = Len(Calls)
            /\ pc = "failed"
            /\ error = "BuilderRejection"

\* a run in which a createMesh call was rejected after earlier calls were
\* accepted, with meshes of the entity and later entities still to come
C10_Witness ==
    /\ pc = "failed"
    /\ Len(Calls) >= 2
    /\ Calls[Len(Calls)].call = "createMesh"
    /\ ~Calls[Len(Calls)].accepted
    /\ j + 1 < jlen
    /\ i + 1 < NumEntities

----------------------------------------------------------------------------
(* C2: for every createMesh call made for mesh index m, the positions and  *)
(* the normals slices both cover [meshPositions[m], end) with end =        *)
(* meshPositions[m+1] if m+1 < M, else positions.length; the indices and   *)
(* edgeIndices slices cover the same kind of range of their own table and  *)
(* array; the slices of the last mesh end at the length of the arrays.     *)

\* the view of the array named name that covers [table[m], table[m+1]) or,
\* for the last mesh, [table[m], len)
ExpectedSlice(name, len, table, m) ==
    LET from == Get(table, m)
        to == IF m + 1 < NumMeshes THEN Get(table, m + 1) ELSE len
    IN  [buffer |-> name, begin |-> from, length |-> to - from]

C2_SlicesFollowTables ==
    (entry = "load" /\ ValidContainer) =>
        \A k \in MeshCalls :
            LET m == Calls[k].mesh
                cfg == Calls[k].cfg
            IN  /\ cfg.positions = ExpectedSlice("positions", Len(Container.positions),
                                                 Container.meshPositions, m)
                /\ cfg.normals = ExpectedSlice("normals", Len(Container.positions),
                                               Container.meshPositions, m)
                /\ cfg.positions.length = cfg.normals.length
                /\ cfg.indices = ExpectedSlice("indices", Len(Container.indices),
                                               Container.meshIndices, m)
                /\ cfg.edgeIndices = ExpectedSlice("edgeIndices", Len(Container.edgeIndices),
                                                   Container.meshEdgesIndices, m)

----------------------------------------------------------------------------
(* C5: for every createMesh record emitted for mesh index m, the color is  *)
(* (meshColors[4m], meshColors[4m+1], meshColors[4m+2]) / 255 and the      *)
(* opacity is meshColors[4m+3] / 255, all in [0, 1], whatever the type     *)
(* defaults are.                                                           *)

\* the number q is x / 255 and lies in [0, 1]
IsByteOver255(q, x) ==
    /\ q[2] > 0
    /\ q[1] * 255 = x * q[2]
    /\ 0 <= q[1] /\ q[1] <= q[2]

C5_ColorIsLiteral ==
    (entry = "load" /\ ValidContainer) =>
        \A k \in MeshCalls :
            LET m == Calls[k].mesh
                cfg == Calls[k].cfg
            IN  /\ Len(cfg.color.elems) = 3
                /\ \A c \in 1..3 :
                      IsByteOver255(cfg.color.elems[c], Get(Container.meshColors, 4 * m + c - 1))
                /\ IsByteOver255(cfg.opacity, Get(Container.meshColors, 4 * m + 3))

----------------------------------------------------------------------------
(* C6: when the offset tables of the decoded container are inconsistent    *)
(* (a table or per-mesh or per-entity array of the wrong length, or a      *)
(* decreasing offset), load fails before the entity loop: it makes no      *)
(* createMesh and no createEntity call and does not return normally.       *)

InconsistentTables ==
    \/ Len(Container.meshIndices) # NumMeshes
    \/ Len(Container.meshEdgesIndices) # NumMeshes
    \/ Len(Container.meshColors) # 4 * NumMeshes
    \/ IdList.ok /\ Len(IdList.value) # NumEntities
    \/ Len(Container.entityIsObjects) # NumEntities
    \/ ~IsNonDecreasing(Container.entityMeshes)
    \/ ~IsNonDecreasing(Container.meshPositions)
    \/ ~IsNonDecreasing(Container.meshIndices)
    \/ ~IsNonDecreasing(Container.meshEdgesIndices)

C6_InconsistentTablesRejected ==
    (entry = "load" /\ InconsistentTables) => (Calls = <<>> /\ pc # "done")

----------------------------------------------------------------------------
(* C7: a buffer that was passed to the builder in a createMesh record is   *)
(* not written again: the buffer referenced by every record of the log     *)
(* still has the contents it had when the record was passed.               *)

BufferNow(name) == IF name = "color2" THEN color2 ELSE inflatedData[name]

C7_EmittedBuffersUnchanged ==
    \A k \in MeshCalls : BufferNow(Calls[k].cfg.color.buffer) = Calls[k].cfg.color.elems

----------------------------------------------------------------------------
(* C8: for a container whose 12 buffers are all valid compressed streams,  *)
(* ParserV1.parse inflates every slot without error and runs load on the   *)
(* decoded arrays; it fails in inflate only when a buffer is not a valid   *)
(* stream, and then no builder call is made.                               *)
C8_ParseInflatesValidStreams ==
    entry = "parse" =>
        /\ (\A k \in 1..12 : elements[k].ok) =>
              (error \notin {"TypeError", "InflateError"} /\ inflatedData = Container)
        /\ error \in {"TypeError", "InflateError"} =>
              ((\E k \in 1..12 : ~elements[k].ok) /\ Calls = <<>>)

====
